---- MODULE Spec2Model ----
(***************************************************************************)
(* Model of the AI career counsellor (src/api.py): the LangGraph node      *)
(* career_guidance_node with its trend computation, the questionnaire's    *)
(* domain scoring, and the Streamlit script with its Firestore documents.  *)
(*                                                                         *)
(* Conventions.                                                            *)
(*  - A Python dict is a function whose DOMAIN is its key set.             *)
(*  - A Python str that the code builds or inspects is a sequence of       *)
(*    tokens; concatenation is \o and strip() removes blank tokens at      *)
(*    both ends.                                                           *)
(*  - A class ("8".."12") is written as its number, a date as a day        *)
(*    number.                                                              *)
(***************************************************************************)
EXTENDS Integers, Sequences, FiniteSets, TLC

VARIABLES
    nodeIn,       \* the CounsellorState handed to the node checked on its own
    nodeReplies,  \* what the guidance service answers during that invocation
    nodeOut,      \* what the node returned, NotInvoked before
    registered,   \* Firebase auth: the e-mails that have an account
    profile,      \* students/{uid}: <<>> or <<the document>>
    questionnaire,\* students/{uid}/questionnaire, in the order of the adds
    tests,        \* students/{uid}/tests: <<[id, data]>>, in the order of the adds
    guidance,     \* students/{uid}/guidance_history, in the order of the adds
    sessUser,     \* st.session_state.user of each browser session
    sessQDone,    \* st.session_state.questionnaire_done: <<>> while absent
    pc,           \* where the session's script run is: idle, body, rerun
    click,        \* the button whose click started the run, or "none"
    page,         \* the sidebar's page: the one shown, or chosen for the run
    local         \* the script run's variables: <<profile>> (line 172), and
                  \* <<profile, top_domain>> after line 313

nodeVars == <<nodeIn, nodeReplies, nodeOut>>
dbVars == <<registered, profile, questionnaire, tests, guidance>>
sessVars == <<sessUser, sessQDone, pc, click, page, local>>
vars == <<nodeIn, nodeReplies, nodeOut, registered, profile, questionnaire,
          tests, guidance, sessUser, sessQDone, pc, click, page, local>>

(***************************************************************************)
(* Bounds of the model                                                     *)
(***************************************************************************)
\* longest score history given to the node when it is checked on its own
MaxRows == 3

\* the scores a history row may hold for the subject whose trend is studied
ScoreVals == {10, 50, 90}

(***************************************************************************)
(* Helpers                                                                 *)
(***************************************************************************)
SeqsUpTo(S, n) == UNION {[1..k -> S] : k \in 0..n}

Last(s) == s[Len(s)]

(***************************************************************************)
(* Strings as token sequences                                              *)
(***************************************************************************)
Blank == " "

RECURSIVE LStrip(_)
LStrip(t) == IF t # <<>> /\ Head(t) = Blank THEN LStrip(Tail(t)) ELSE t

RECURSIVE RStrip(_)
RStrip(t) ==
    IF t # <<>> /\ Last(t) = Blank THEN RStrip(SubSeq(t, 1, Len(t) - 1)) ELSE t

\* str.strip()
Strip(t) == RStrip(LStrip(t))

(***************************************************************************)
(* career_guidance_node, lines 56-104                                      *)
(***************************************************************************)
\* the keys line 66 filters out of the subject list
BookkeepingKeysClassOnly == {"class"}
BookkeepingKeys == {"class", "date_entered"}

\* lines 64-66: the keys of the first row, without the bookkeeping keys
\* (empty when there is no row)
Subjects(test_scores) ==
    IF test_scores # <<>>
    THEN (DOMAIN test_scores[1]) \ BookkeepingKeys
    ELSE {}

\* lines 68-76
get_trend_full_series(scores) ==
    IF Len(scores) < 2 THEN "Not enough data"
    ELSE IF \A i \in 1..(Len(scores) - 1) : scores[i + 1] > scores[i] THEN "Improving"
    ELSE IF \A i \in 1..(Len(scores) - 1) : scores[i + 1] < scores[i] THEN "Declining"
    ELSE "Stable"

get_trend_no_length_check(scores) ==
    IF scores = <<>> THEN "Not enough data"
    ELSE IF scores[Len(scores)] > scores[1] THEN "Improving"
    ELSE IF scores[Len(scores)] < scores[1] THEN "Declining"
    ELSE "Stable"

get_trend(scores) ==
    IF Len(scores) < 2 THEN "Not enough data"
    ELSE IF scores[Len(scores)] > scores[1] THEN "Improving"
    ELSE IF scores[Len(scores)] < scores[1] THEN "Declining"
    ELSE "Stable"

\* line 79: [t[sub] for t in test_scores if sub in t]
RECURSIVE sub_scores_default_zero(_, _)
sub_scores_default_zero(test_scores, sub) ==
    IF test_scores = <<>> THEN <<>>
    ELSE IF sub \in DOMAIN Head(test_scores)
         THEN <<Head(test_scores)[sub]>> \o sub_scores_default_zero(Tail(test_scores), sub)
         ELSE <<0>> \o sub_scores_default_zero(Tail(test_scores), sub)

RECURSIVE sub_scores(_, _)
sub_scores(test_scores, sub) ==
    IF test_scores = <<>> THEN <<>>
    ELSE IF sub \in DOMAIN Head(test_scores)
         THEN <<Head(test_scores)[sub]>> \o sub_scores(Tail(test_scores), sub)
         ELSE sub_scores(Tail(test_scores), sub)

\* lines 78-80
Trends(test_scores) ==
    [sub \in Subjects(test_scores) |-> get_trend(sub_scores(test_scores, sub))]

\* the keys of the state that lines 64 and 83-87 read; a missing one raises
\* KeyError inside the try block
PromptKeys == {"student_name", "test_scores", "state", "requirement"}

\* lines 82-95: the f-string, as its fixed text and the values it interpolates
PromptHead == "The student named"
PromptTail == "Provide: 1. guidance 2. trends 3. Bachelor's table 4. Master's table 5. summary"
Prompt_with_earlier_guidance(state) ==
    <<PromptHead, state["student_name"], state["test_scores"],
      Trends(state["test_scores"]), state["state"],
      <<state["requirement"], state["guidance_text"]>>, PromptTail>>

Prompt(state) ==
    <<PromptHead, state["student_name"], state["test_scores"],
      Trends(state["test_scores"]), state["state"], state["requirement"],
      PromptTail>>

\* line 104: the text of the except branch
ErrorMarker == "<warning sign> Error fetching AI guidance: "
ErrorText(e) == <<ErrorMarker, e, "\n\n", "Traceback (most recent call last):", e>>

\* what one call of client.chat.completions.create may do (lines 96-100):
\* return a reply with content, raise, return no choice (IndexError at
\* choices[0]) or a choice without content (AttributeError at .strip())
ServiceErrors == {"AuthenticationError", "APITimeoutError"}
ServiceContents == {<<>>, <<"advice">>, <<Blank, "advice", "table", Blank>>}
ServiceReplies ==
    {[kind |-> "ok", content |-> c] : c \in ServiceContents}
    \cup {[kind |-> "raise", err |-> e] : e \in ServiceErrors}
    \cup {[kind |-> "no_choices"], [kind |-> "null_content"]}

ReplyError(r) ==
    CASE r.kind = "raise" -> r.err
      [] r.kind = "no_choices" -> "IndexError: list index out of range"
      [] r.kind = "null_content" -> "AttributeError: 'NoneType' object has no attribute 'strip'"
      [] OTHER -> ""

\* {**state, "guidance_text": text}
WithGuidance(state, text) ==
    [k \in (DOMAIN state) \cup {"guidance_text"} |->
        IF k = "guidance_text" THEN text ELSE state[k]]

\* The node. replies is what the service would answer to the first, second,
\* ... call made during this invocation; the node returns the state it
\* outputs, the number of calls it made and the prompt it sent.
NoPrompt == <<>>

career_guidance_node_raises(state, replies) ==
    IF ~(PromptKeys \subseteq DOMAIN state)
    THEN [out |-> WithGuidance(state, ErrorText("KeyError")), calls |-> 0,
          prompt |-> NoPrompt, raised |-> FALSE]
    ELSE IF replies[1].kind = "ok"
    THEN [out |-> WithGuidance(state, Strip(replies[1].content)), calls |-> 1,
          prompt |-> Prompt(state), raised |-> FALSE]
    ELSE [out |-> state, calls |-> 1, prompt |-> Prompt(state), raised |-> TRUE]

career_guidance_node_retry(state, replies) ==
    IF ~(PromptKeys \subseteq DOMAIN state)
    THEN [out |-> WithGuidance(state, ErrorText("KeyError")), calls |-> 0,
          prompt |-> NoPrompt, raised |-> FALSE]
    ELSE IF replies[1].kind = "ok"
    THEN [out |-> WithGuidance(state, Strip(replies[1].content)), calls |-> 1,
          prompt |-> Prompt(state), raised |-> FALSE]
    ELSE IF replies[2].kind = "ok"
    THEN [out |-> WithGuidance(state, Strip(replies[2].content)), calls |-> 2,
          prompt |-> Prompt(state), raised |-> FALSE]
    ELSE [out |-> WithGuidance(state, ErrorText(ReplyError(replies[2]))), calls |-> 2,
          prompt |-> Prompt(state), raised |-> FALSE]

career_guidance_node(state, replies) ==
    IF ~(PromptKeys \subseteq DOMAIN state)
    THEN \* KeyError at line 64 or lines 83-87, caught at line 102
         [out |-> WithGuidance(state, ErrorText("KeyError")), calls |-> 0,
          prompt |-> NoPrompt, raised |-> FALSE]
    ELSE IF replies[1].kind = "ok"
    THEN \* lines 96-101
         [out |-> WithGuidance(state, Strip(replies[1].content)), calls |-> 1,
          prompt |-> Prompt(state), raised |-> FALSE]
    ELSE \* the call or lines 100 failed, caught at line 102
         [out |-> WithGuidance(state, ErrorText(ReplyError(replies[1]))), calls |-> 1,
          prompt |-> Prompt(state), raised |-> FALSE]

\* lines 106-110: the graph is the one node followed by END
app_invoke(state, replies) == career_guidance_node(state, replies)

(***************************************************************************)
(* Questionnaire scoring, lines 258-313                                    *)
(***************************************************************************)
\* lines 258-290: the 31 statements, Q1..Q31
NumQuestions == 31
questions == 1..NumQuestions

\* lines 303-310, and the order in which the dict lists its keys
DomainOrder ==
    <<"Engineering & Technology", "Research & Science", "Medical & Life Sciences",
      "Arts & Design", "Business & Management", "Law & Public Services">>

domain_map_q18_in_law ==
    [d \in {DomainOrder[i] : i \in 1..6} |->
        CASE d = "Engineering & Technology" -> <<1, 3, 8, 11, 22>>
          [] d = "Research & Science" -> <<2, 7, 12, 23, 26>>
          [] d = "Medical & Life Sciences" -> <<4, 9, 13, 21, 24>>
          [] d = "Arts & Design" -> <<5, 10, 14, 20, 29>>
          [] d = "Business & Management" -> <<15, 17, 19, 27, 30>>
          [] d = "Law & Public Services" -> <<6, 16, 18, 25, 28, 31>>]

domain_map ==
    [d \in {DomainOrder[i] : i \in 1..6} |->
        CASE d = "Engineering & Technology" -> <<1, 3, 8, 11, 22>>
          [] d = "Research & Science" -> <<2, 7, 12, 23, 26>>
          [] d = "Medical & Life Sciences" -> <<4, 9, 13, 21, 24>>
          [] d = "Arts & Design" -> <<5, 10, 14, 20, 29>>
          [] d = "Business & Management" -> <<15, 17, 19, 27, 30>>
          [] d = "Law & Public Services" -> <<6, 16, 25, 28, 31>>]

\* sum(responses[f"Q{i}"] for i in q_nums)
RECURSIVE SumOver(_, _)
SumOver(responses, q_nums) ==
    IF q_nums = <<>> THEN 0
    ELSE responses[Head(q_nums)] + SumOver(responses, Tail(q_nums))

\* line 312
domain_scores(responses) ==
    [d \in DOMAIN domain_map |-> SumOver(responses, domain_map[d])]

\* line 313: max(domain_scores, key=domain_scores.get) walks the keys in
\* dict order and keeps the first one whose score no later key exceeds
RECURSIVE MaxFrom(_, _, _)
MaxFrom(scores, best, rest) ==
    IF rest = <<>> THEN best
    ELSE IF scores[Head(rest)] > scores[best]
         THEN MaxFrom(scores, Head(rest), Tail(rest))
         ELSE MaxFrom(scores, best, Tail(rest))

RECURSIVE MinFrom(_, _, _)
MinFrom(scores, best, rest) ==
    IF rest = <<>> THEN best
    ELSE IF scores[Head(rest)] < scores[best]
         THEN MinFrom(scores, Head(rest), Tail(rest))
         ELSE MinFrom(scores, best, Tail(rest))

RECURSIVE LastMaxFrom(_, _, _)
LastMaxFrom(scores, best, rest) ==
    IF rest = <<>> THEN best
    ELSE IF scores[Head(rest)] >= scores[best]
         THEN LastMaxFrom(scores, Head(rest), Tail(rest))
         ELSE LastMaxFrom(scores, best, Tail(rest))

top_domain_last_max(scores) == LastMaxFrom(scores, Head(DomainOrder), Tail(DomainOrder))

top_domain_min(scores) == MinFrom(scores, Head(DomainOrder), Tail(DomainOrder))

top_domain(scores) == MaxFrom(scores, Head(DomainOrder), Tail(DomainOrder))

(***************************************************************************)
(* The Streamlit script and its Firestore documents                        *)
(*                                                                         *)
(* Every interaction of a browser session (a click on a button, a choice   *)
(* in the sidebar) runs the script from its first line, with at most one   *)
(* button reported as clicked. A run is a sequence of steps, one for each  *)
(* call to the authentication service or to Firestore that changes what    *)
(* the run does: the sidebar button (lines 131-145), the top of the script *)
(* up to the navigation, which reads the profile document (line 172), the  *)
(* body of the page, and within the handlers of Save Profile and Submit    *)
(* Questionnaire the write and what follows it. Each session runs in a     *)
(* thread of its own, so the steps of two sessions interleave. A button    *)
(* can be clicked only on the page the browser shows, which is the page    *)
(* the session's last run rendered.                                        *)
(***************************************************************************)
Users == {"u1", "u2"}
Sessions == {"s1", "s2"}
NoUser == "nobody"

\* Python None for Optional values kept as <<>> / <<value>>
None == <<>>
Some(v) == <<v>>

\* the value of the profile field domain before the questionnaire (line 198)
NoDomain == "None"

\* what a browser shows: the login notice (line 168), the first-time
\* profile form (lines 181-185) or one of the pages of line 228
Pages == {"Profile Details", "Questionnaire", "Counsel", "Previous Analysis"}

\* the buttons of the pages and where they are
Buttons == {"Save Profile", "Update Profile", "Submit Questionnaire", "Add Test",
            "Generate Career Guidance"}
ButtonPage(b) ==
    CASE b = "Save Profile" -> "setup"
      [] b = "Update Profile" -> "Profile Details"
      [] b = "Submit Questionnaire" -> "Questionnaire"
      [] b = "Add Test" -> "Counsel"
      [] b = "Generate Career Guidance" -> "Counsel"

\* lines 159-161
get_profile(uid) == profile[uid]

\* lines 175-178 and 216-217: the session flag after the top of the script
\* has run with the profile p just read
SessionFlag(s, p) ==
    LET set == IF sessQDone[s] = None
               THEN Some(IF p # None THEN p[1].questionnaire_done ELSE FALSE)
               ELSE sessQDone[s]
    IN IF p # None /\ p[1].questionnaire_done /\ ~set[1] THEN Some(TRUE) ELSE set

\* lines 166-178 and 208-217 for the session user u, in a run started by a
\* click on button (or by something else: "none") with selected chosen in
\* the sidebar
Top(s, u, button, selected) ==
    IF u = NoUser
    THEN \* line 169: st.stop()
         /\ pc' = [pc EXCEPT ![s] = "idle"]
         /\ local' = [local EXCEPT ![s] = None]
         /\ click' = [click EXCEPT ![s] = "none"]
         /\ page' = [page EXCEPT ![s] = "login"]
         /\ UNCHANGED sessQDone
    ELSE /\ pc' = [pc EXCEPT ![s] = "body"]
         /\ local' = [local EXCEPT ![s] = get_profile(u)]
         /\ click' = [click EXCEPT ![s] = button]
         /\ page' = [page EXCEPT ![s] = selected]
         /\ sessQDone' = [sessQDone EXCEPT ![s] = SessionFlag(s, get_profile(u))]

\* the run st.experimental_rerun() starts
Rerun(s) ==
    /\ pc[s] = "rerun"
    /\ Top(s, sessUser[s], "none", page[s])
    /\ UNCHANGED <<sessUser, dbVars, nodeVars>>

\* lines 166-217 in a run whose sidebar button (Create Account, Login) has
\* made its call to the authentication service
ReadProfile(s) ==
    /\ pc[s] = "top"
    /\ Top(s, sessUser[s], "none", page[s])
    /\ UNCHANGED <<sessUser, dbVars, nodeVars>>

\* lines 222-226
nav_pages(s) ==
    IF ~sessQDone[s][1]
    THEN {"Profile Details", "Questionnaire"}
    ELSE {"Profile Details", "Counsel", "Previous Analysis"}

\* line 228: the student chooses a page the sidebar offers (or changes a
\* slider or a text on the page shown, which runs the script as well)
Navigate(s, selected) ==
    /\ pc[s] = "idle"
    /\ \/ page[s] \in Pages /\ selected \in nav_pages(s)
       \/ page[s] = "setup" /\ selected = "setup"
    /\ Top(s, sessUser[s], "none", selected)
    /\ UNCHANGED <<sessUser, dbVars, nodeVars>>

\* the buttons a run can draw. Lines 298 and 429 assign
\* st.session_state[key] the value of a widget made with key=key: the
\* assignment comes after the widget is instantiated, Streamlit raises
\* StreamlitAPIException there and nothing catches it. A run of the
\* Questionnaire page ends at its first slider, before the button of line
\* 301; a run of the Counsel page with a career interest typed ends at its
\* first follow-up, before the button of line 433, and with none typed
\* line 382 skips the follow-ups and the button.
Drawn == {"Save Profile", "Update Profile", "Add Test"}

\* a click on a button of the page shown
Click(s, button) ==
    /\ pc[s] = "idle"
    /\ button \in Drawn
    /\ page[s] = ButtonPage(button)
    /\ Top(s, sessUser[s], button, page[s])
    /\ UNCHANGED <<sessUser, dbVars, nodeVars>>

\* the run goes on to line 166 after a sidebar button
ToTop(s) ==
    /\ pc' = [pc EXCEPT ![s] = "top"]
    /\ click' = [click EXCEPT ![s] = "none"]
    /\ UNCHANGED <<page, local, sessQDone>>

\* lines 131-136: Create Account; create_user raises for a password of
\* fewer than six characters (and for an e-mail that has an account)
Register(s, email, password_ok) ==
    /\ pc[s] = "idle"
    /\ registered' = IF password_ok THEN registered \cup {email} ELSE registered
    /\ ToTop(s)
    /\ UNCHANGED <<sessUser, profile, questionnaire, tests, guidance, nodeVars>>

\* lines 139-145: Login (get_user_by_email fails for an unknown e-mail)
Login(s, email) ==
    /\ pc[s] = "idle"
    /\ sessUser' = [sessUser EXCEPT ![s] =
           IF email \in registered THEN email ELSE sessUser[s]]
    /\ ToTop(s)
    /\ UNCHANGED <<dbVars, nodeVars>>

\* lines 148-154: Logout clears the session state and reruns
Logout(s) ==
    /\ pc[s] = "idle"
    /\ sessUser[s] # NoUser
    /\ sessUser' = [sessUser EXCEPT ![s] = NoUser]
    /\ sessQDone' = [sessQDone EXCEPT ![s] = None]
    /\ local' = [local EXCEPT ![s] = None]
    /\ click' = [click EXCEPT ![s] = "none"]
    /\ page' = [page EXCEPT ![s] = "login"]
    /\ pc' = [pc EXCEPT ![s] = "rerun"]
    /\ UNCHANGED <<dbVars, nodeVars>>

\* the page whose body the run executes: the first-time form without a
\* profile (line 181), else the sidebar's choice, which falls back to the
\* first entry when the choice is not among the pages offered (line 228)
EffectivePage(s) ==
    IF local[s] = None THEN "setup"
    ELSE IF page[s] \in nav_pages(s) THEN page[s]
    ELSE "Profile Details"

\* st.button(...) is true in this run
Clicked(s, button) ==
    /\ pc[s] = "body"
    /\ click[s] = button
    /\ EffectivePage(s) = ButtonPage(button)

\* the run ends, with a rerun to follow or not
End(s, then) ==
    /\ pc' = [pc EXCEPT ![s] = then]
    /\ click' = [click EXCEPT ![s] = "none"]
    /\ page' = [page EXCEPT ![s] = EffectivePage(s)]
    /\ local' = [local EXCEPT ![s] = None]

\* a run in which no button of the page is clicked renders the page (the
\* Questionnaire page as far as line 298, where the run ends as well)
Render(s) ==
    /\ pc[s] = "body"
    /\ \A button \in Buttons : ~Clicked(s, button)
    /\ End(s, "idle")
    /\ UNCHANGED <<sessUser, sessQDone, dbVars, nodeVars>>

\* lines 188-189, 238-239: a name and at least one subject
ValidProfileInput(name, subjects) == name # "" /\ subjects # <<>>

\* a handler has made a call to Firestore and goes on at the next one
Goto(s, at) ==
    /\ pc' = [pc EXCEPT ![s] = at]
    /\ UNCHANGED <<click, page>>

\* lines 187-200: Save Profile on the first-time form, up to the set()
SaveProfile(s, name, class, subjects) ==
    /\ Clicked(s, "Save Profile")
    /\ IF ValidProfileInput(name, subjects)
       THEN /\ profile' = [profile EXCEPT ![sessUser[s]] =
                   Some([name |-> name, class |-> class, subjects |-> subjects,
                         questionnaire_done |-> FALSE, domain |-> NoDomain])]
            /\ Goto(s, "saved")
            /\ UNCHANGED local
       ELSE /\ End(s, "idle")
            /\ UNCHANGED profile
    /\ UNCHANGED <<registered, questionnaire, tests, guidance, sessUser, sessQDone,
                   nodeVars>>

\* lines 202-205: the handler reads the stored profile again and sets the
\* session flag from it
SaveProfileRefresh(s) ==
    /\ pc[s] = "saved"
    /\ sessQDone' = [sessQDone EXCEPT ![s] =
           Some(get_profile(sessUser[s])[1].questionnaire_done)]
    /\ End(s, "rerun")
    /\ UNCHANGED <<sessUser, dbVars, nodeVars>>

UpdateProfileOverwrites(s, name, class, subjects) ==
    /\ Clicked(s, "Update Profile")
    /\ IF ValidProfileInput(name, subjects)
       THEN /\ profile' = [profile EXCEPT ![sessUser[s]] =
                   Some([name |-> name, class |-> class, subjects |-> subjects,
                         questionnaire_done |-> FALSE, domain |-> NoDomain])]
            /\ End(s, "rerun")
       ELSE /\ End(s, "idle")
            /\ UNCHANGED profile
    /\ UNCHANGED <<registered, questionnaire, tests, guidance, sessUser, sessQDone,
                   nodeVars>>

\* lines 237-250: Update Profile; update() changes the three fields of the
\* stored document and leaves its other fields
UpdateProfile(s, name, class, subjects) ==
    /\ Clicked(s, "Update Profile")
    /\ IF ValidProfileInput(name, subjects)
       THEN /\ profile' = [profile EXCEPT ![sessUser[s]] =
                   Some([profile[sessUser[s]][1] EXCEPT
                            !.name = name, !.class = class, !.subjects = subjects])]
            /\ End(s, "rerun")
       ELSE /\ End(s, "idle")
            /\ UNCHANGED profile
    /\ UNCHANGED <<registered, questionnaire, tests, guidance, sessUser, sessQDone,
                   nodeVars>>

\* lines 301-321: Submit Questionnaire with the slider values responses, up
\* to the add() of the record
SubmitQuestionnaire(s, responses) ==
    /\ Clicked(s, "Submit Questionnaire")
    /\ LET scores == domain_scores(responses)
           top == top_domain(scores)
           uid == sessUser[s]
       IN /\ questionnaire' = [questionnaire EXCEPT ![uid] =
                 Append(@, [responses |-> responses, calculated_domain |-> top,
                            domain_scores |-> scores])]
          /\ local' = [local EXCEPT ![s] = <<local[s][1], top>>]
    /\ Goto(s, "added")
    /\ UNCHANGED <<registered, profile, tests, guidance, sessUser, sessQDone, nodeVars>>

SubmitQuestionnaireUpdateFlagOnly(s) ==
    /\ pc[s] = "added"
    /\ LET uid == sessUser[s]
       IN profile' = [profile EXCEPT ![uid] =
              Some([profile[uid][1] EXCEPT !.questionnaire_done = TRUE])]
    /\ sessQDone' = [sessQDone EXCEPT ![s] = Some(TRUE)]
    /\ End(s, "rerun")
    /\ UNCHANGED <<registered, questionnaire, tests, guidance, sessUser, nodeVars>>

\* lines 322-331: the update() of the profile, the session flag, the rerun
SubmitQuestionnaireUpdate(s) ==
    /\ pc[s] = "added"
    /\ LET uid == sessUser[s]
           top == local[s][2]
       IN profile' = [profile EXCEPT ![uid] =
              Some([profile[uid][1] EXCEPT
                       !.questionnaire_done = TRUE, !.domain = top])]
    /\ sessQDone' = [sessQDone EXCEPT ![s] = Some(TRUE)]
    /\ End(s, "rerun")
    /\ UNCHANGED <<registered, questionnaire, tests, guidance, sessUser, nodeVars>>

\* lines 351-358: the row the Add Test form builds; the date has the
\* resolution of a day and is day 1 throughout. A subject's mark is written
\* after the two fixed fields, so it replaces a fixed field of its name.
test_row(class, subjects, marks) ==
    [k \in {"class", "date_entered"} \cup subjects |->
        IF k \in subjects THEN marks[k]
        ELSE IF k = "class" THEN class ELSE 1]

Range(seq) == {seq[i] : i \in DOMAIN seq}

\* the documents of a collection in the order stream() yields them when the
\* query has no order_by: ascending document id. add() gives a document a
\* random id, so the id says nothing about when the document was added.
RECURSIVE SortById(_)
SortById(docs) ==
    IF docs = {} THEN <<>>
    ELSE LET first == CHOOSE d \in docs : \A e \in docs : d.id <= e.id
         IN <<first>> \o SortById(docs \ {first})

\* lines 341-345
LoadTests(uid) ==
    LET sorted == SortById(Range(tests[uid]))
    IN [i \in DOMAIN sorted |-> sorted[i].data]

\* lines 359-364: Add Test stores the row under a fresh random id
AddTest(s, marks, id) ==
    /\ Clicked(s, "Add Test")
    /\ Range(local[s][1].subjects) \subseteq DOMAIN marks
    /\ \A i \in DOMAIN tests[sessUser[s]] : tests[sessUser[s]][i].id # id
    /\ LET p == local[s][1] IN
       tests' = [tests EXCEPT ![sessUser[s]] =
           Append(@, [id |-> id,
                      data |-> test_row(p.class, Range(p.subjects), marks)])]
    /\ End(s, "idle")
    /\ UNCHANGED <<registered, profile, questionnaire, guidance, sessUser, sessQDone,
                   nodeVars>>

\* str.lower() of the domain names and of the interests typed in the model
Lower(str) ==
    CASE str = "Engineering & Technology" -> "engineering & technology"
      [] str = "Research & Science" -> "research & science"
      [] str = "Medical & Life Sciences" -> "medical & life sciences"
      [] str = "Arts & Design" -> "arts & design"
      [] str = "Business & Management" -> "business & management"
      [] str = "Law & Public Services" -> "law & public services"
      [] str = "Not Defined" -> "not defined"
      [] str = "Research & Science jobs" -> "research & science jobs"
      [] str = "Doctor" -> "doctor"
      [] OTHER -> str

\* a in b for lower-case strings: the strings of the model contain each
\* other only as listed
IsIn(a, b) == a = b \/ <<a, b>> \in {<<"research & science", "research & science jobs">>}

\* line 446: content.strip().split("\n")[0].strip(); a token is a line
FirstLine(content) == IF Strip(content) = <<>> THEN "" ELSE Head(Strip(content))

\* lines 476-486 and 513-523: add() appends a document to the history
SaveGuidanceReplaceLast(history, record) == <<record>>
SaveGuidance(history, record) == Append(history, record)

\* lines 436-523: the record a click on Generate Career Guidance stores for
\* the student with profile p and the loaded rows loaded. r1, r2 and r3 are
\* what the service does on the specialization call, on the call of the
\* interest guidance and on the call of the domain guidance.
guidance_record(p, loaded, requirement, r1, r2, r3) ==
    LET test_scores == IF loaded # <<>> THEN loaded ELSE <<[class |-> p.class]>>
        specialization == IF r1.kind = "ok" THEN FirstLine(r1.content) ELSE "General"
        state_for_interest ==
            [student_name |-> p.name, test_scores |-> test_scores, state |-> "Kerala",
             requirement |-> <<requirement, " - ", specialization>>,
             guidance_text |-> <<>>]
        interest_guidance == app_invoke(state_for_interest, <<r2, r2>>).out["guidance_text"]
        actual_domain == IF p.domain # NoDomain THEN p.domain ELSE "Not Defined"
        matched == IsIn(Lower(actual_domain), Lower(requirement))
        state_for_domain ==
            [student_name |-> p.name, test_scores |-> test_scores, state |-> "Kerala",
             requirement |-> <<actual_domain, " - (assessed domain from questionnaire)">>,
             guidance_text |-> <<>>]
        domain_guidance == app_invoke(state_for_domain, <<r3, r3>>).out["guidance_text"]
        combined_output ==
            IF matched
            THEN <<"### Matched your assessed domain: ", actual_domain, "\n\n">>
                 \o interest_guidance
            ELSE <<"### Guidance based on your assessed aptitude domain: ", actual_domain,
                   "\n\n">> \o domain_guidance
                 \o <<"\n\n---\n\n", "### Guidance based on your expressed interest: ",
                      requirement, specialization, "\n\n">>
                 \o interest_guidance
    IN [name |-> p.name, state |-> "Kerala", requirement |-> requirement,
        specialization |-> specialization, guidance_text |-> combined_output,
        domain |-> actual_domain, match |-> matched]

\* lines 433-524: Generate Career Guidance
Generate(s, requirement, r1, r2, r3) ==
    /\ Clicked(s, "Generate Career Guidance")
    /\ LET uid == sessUser[s]
       IN guidance' = [guidance EXCEPT ![uid] =
              SaveGuidance(@, guidance_record(local[s][1], LoadTests(uid),
                                              requirement, r1, r2, r3))]
    /\ End(s, "idle")
    /\ UNCHANGED <<registered, profile, questionnaire, tests, sessUser, sessQDone,
                   nodeVars>>

(***************************************************************************)
(* The application: two browser sessions and two accounts (Spec), the      *)
(* Counsel page in one session (SpecShared), and the handlers of the       *)
(* buttons that are never drawn (SpecSubmit, SpecCounsel)                  *)
(***************************************************************************)
AllThree == [q \in questions |-> 3]
AppResponses == {AllThree, [AllThree EXCEPT ![2] = 5]}
AppReplies == {[kind |-> "ok", content |-> <<Blank, "advice", "table">>],
               [kind |-> "raise", err |-> "APITimeoutError"]}

\* the node checked on its own is not part of the application's runs
NotInvoked == [calls |-> -1]
NoReplies == <<>>
NodeIdle ==
    /\ nodeIn = [student_name |-> "", test_scores |-> <<>>, state |-> "",
                 requirement |-> <<>>, guidance_text |-> <<>>]
    /\ nodeReplies = NoReplies
    /\ nodeOut = NotInvoked

\* no session is logged in
LoggedOut ==
    /\ sessUser = [s \in Sessions |-> NoUser]
    /\ sessQDone = [s \in Sessions |-> None]
    /\ pc = [s \in Sessions |-> "idle"]
    /\ click = [s \in Sessions |-> "none"]
    /\ page = [s \in Sessions |-> "login"]
    /\ local = [s \in Sessions |-> None]

\* nobody has an account, no document exists, no session is logged in
AppStart ==
    /\ registered = {}
    /\ profile = [u \in Users |-> None]
    /\ questionnaire = [u \in Users |-> <<>>]
    /\ tests = [u \in Users |-> <<>>]
    /\ guidance = [u \in Users |-> <<>>]
    /\ LoggedOut

\* Firestore outlives the script, and the script reads what it finds
\* there: the profile with its questionnaire_done (lines 172-178, 216) and
\* the documents of the pages. The documents of a student who has
\* completed the questionnaire are written as lines 193-199 and 316-325
\* write them; no run of the script as it is can write them (Drawn).
StoredResponses == [AllThree EXCEPT ![2] = 5]
StoredSubmission ==
    [responses |-> StoredResponses,
     calculated_domain |-> top_domain(domain_scores(StoredResponses)),
     domain_scores |-> domain_scores(StoredResponses)]
StoredProfile(done) ==
    Some([name |-> "Asha", class |-> 10, subjects |-> <<"Maths">>,
          questionnaire_done |-> done,
          domain |-> IF done THEN StoredSubmission.calculated_domain ELSE NoDomain])

\* u1 has an account and the documents of a completed questionnaire, u2 has
\* nothing yet, no session is logged in
AppStored ==
    /\ registered = {"u1"}
    /\ profile = [u \in Users |-> IF u = "u1" THEN StoredProfile(TRUE) ELSE None]
    /\ questionnaire = [u \in Users |-> IF u = "u1" THEN <<StoredSubmission>> ELSE <<>>]
    /\ tests = [u \in Users |-> <<>>]
    /\ guidance = [u \in Users |-> <<>>]
    /\ LoggedOut

\* the script starts on an empty project, or on one that has a student
Init == NodeIdle /\ (AppStart \/ AppStored)

\* the authentication buttons, for the e-mails typed in the model
Authenticate(s, emails) ==
    \/ \E email \in emails, password_ok \in BOOLEAN : Register(s, email, password_ok)
    \/ \E email \in emails : Login(s, email)
    \/ Logout(s)

\* the steps of a session outside the Counsel page: every interaction the
\* script accepts there
Steps(s, emails, names, subjectLists) ==
    \/ Rerun(s)
    \/ ReadProfile(s)
    \/ Authenticate(s, emails)
    \/ \E selected \in Pages \cup {"setup"} : Navigate(s, selected)
    \/ Click(s, "Save Profile")
    \/ Click(s, "Update Profile")
    \/ Render(s)
    \/ \E name \in {"", "Asha"}, subjects \in {<<>>, <<"Maths">>} :
           SaveProfile(s, name, 10, subjects)
    \/ SaveProfileRefresh(s)
    \/ \E name \in names, subjects \in subjectLists :
           UpdateProfile(s, name, 10, subjects)

Next == \E s \in Sessions : Steps(s, Users, {"", "Ravi"}, {<<"Maths">>})

Spec == Init /\ [][Next]_vars

\* the document ids Firestore's add() draws from; an id is used once, so a
\* student of the model has at most MaxTestIds test rows. The script has no
\* such limit: a behaviour of the model is a behaviour of the script, and
\* the script's behaviours with more rows are not explored.
MaxTestIds == 2

\* the marks typed into the Add Test form
CounselMarks == {m \in [{"Maths", "Physics"} -> {40, 50, 70}] :
                    m["Maths"] \in {40, 70} /\ m["Physics"] = 50}

\* one session in which either student logs in, with the Counsel page
NextShared ==
    \/ Steps("s1", Users, {"", "Asha"}, {<<"Maths">>})
    \/ Click("s1", "Add Test")
    \/ \E marks \in CounselMarks, id \in 1..MaxTestIds : AddTest("s1", marks, id)

SpecShared == Init /\ [][NextShared]_vars

\* a run of session s has reached st.button of button on the page of
\* student u, who has the profile p, and the button reports a click
Accepted(s, u, p, button) ==
    /\ sessUser[s] = u
    /\ sessQDone[s] = Some(p[1].questionnaire_done)
    /\ pc[s] = "body"
    /\ click[s] = button
    /\ page[s] = ButtonPage(button)
    /\ local[s] = p

\* session s is logged out
Away(s) ==
    /\ sessUser[s] = NoUser
    /\ sessQDone[s] = None
    /\ pc[s] = "idle"
    /\ click[s] = "none"
    /\ page[s] = "login"
    /\ local[s] = None

\* lines 301-331 run in a session when st.button of line 301 reports a
\* click. u1 has a profile and has not completed the questionnaire; one
\* session or both are at line 301 with a click.
AppSubmitting ==
    /\ registered = {"u1"}
    /\ profile = [u \in Users |-> IF u = "u1" THEN StoredProfile(FALSE) ELSE None]
    /\ questionnaire = [u \in Users |-> <<>>]
    /\ tests = [u \in Users |-> <<>>]
    /\ guidance = [u \in Users |-> <<>>]
    /\ sessUser \in [Sessions -> {"u1", NoUser}]
    /\ sessQDone \in [Sessions -> {Some(FALSE), None}]
    /\ pc \in [Sessions -> {"body", "idle"}]
    /\ click \in [Sessions -> {"Submit Questionnaire", "none"}]
    /\ page \in [Sessions -> {"Questionnaire", "login"}]
    /\ local \in [Sessions -> {StoredProfile(FALSE), None}]
    /\ \A s \in Sessions :
           Accepted(s, "u1", StoredProfile(FALSE), "Submit Questionnaire") \/ Away(s)
    /\ \E s \in Sessions : ~Away(s)

\* the application with the handler of Submit Questionnaire
NextSubmit ==
    \/ Next
    \/ \E s \in Sessions :
           \/ \E responses \in AppResponses : SubmitQuestionnaire(s, responses)
           \/ SubmitQuestionnaireUpdate(s)

InitSubmit == NodeIdle /\ (AppStart \/ AppStored \/ AppSubmitting)

SpecSubmit == InitSubmit /\ [][NextSubmit]_vars

\* documents of the Counsel page stored for u1: a test row as line 361
\* stores it, and the guidance record a click on Generate stores (lines
\* 513-523) for the interest Doctor when the specialization call fails and
\* the two guidance calls answer
StoredTest == [id |-> 2, data |-> test_row(10, {"Maths"}, [Maths |-> 70])]
StoredGuidance ==
    guidance_record(StoredProfile(TRUE)[1], <<>>, "Doctor",
                    [kind |-> "raise", err |-> "APITimeoutError"],
                    [kind |-> "ok", content |-> <<Blank, "advice", "table">>],
                    [kind |-> "ok", content |-> <<Blank, "advice", "table">>])

\* lines 359-364 and 433-524 run when the button of line 359 or of line
\* 433 reports a click. u1 has completed the questionnaire, s1 is at one of
\* the two buttons of the Counsel page with a click, s2 is logged out.
CounselStart ==
    /\ registered = {"u1"}
    /\ profile = [u \in Users |-> IF u = "u1" THEN StoredProfile(TRUE) ELSE None]
    /\ questionnaire = [u \in Users |-> IF u = "u1" THEN <<StoredSubmission>> ELSE <<>>]
    /\ \E rows \in {<<>>, <<StoredTest>>} :
           tests = [u \in Users |-> IF u = "u1" THEN rows ELSE <<>>]
    /\ \E records \in {<<>>, <<StoredGuidance>>} :
           guidance = [u \in Users |-> IF u = "u1" THEN records ELSE <<>>]
    /\ sessUser = [s \in Sessions |-> IF s = "s1" THEN "u1" ELSE NoUser]
    /\ sessQDone = [s \in Sessions |-> IF s = "s1" THEN Some(TRUE) ELSE None]
    /\ pc = [s \in Sessions |-> IF s = "s1" THEN "body" ELSE "idle"]
    /\ \E button \in {"Add Test", "Generate Career Guidance"} :
           click = [s \in Sessions |-> IF s = "s1" THEN button ELSE "none"]
    /\ page = [s \in Sessions |-> IF s = "s1" THEN "Counsel" ELSE "login"]
    /\ local = [s \in Sessions |-> IF s = "s1" THEN StoredProfile(TRUE) ELSE None]

\* one student in one session, with the handlers of the Counsel page
NextCounsel ==
    \/ Steps("s1", Users, {"", "Ravi"}, {<<>>, <<"Maths">>})
    \/ Click("s1", "Add Test")
    \/ \E marks \in CounselMarks, id \in 1..MaxTestIds : AddTest("s1", marks, id)
    \/ \E requirement \in {"Doctor", "Research & Science jobs"},
          r1 \in AppReplies, r2 \in AppReplies, r3 \in AppReplies :
           Generate("s1", requirement, r1, r2, r3)

InitCounsel == NodeIdle /\ CounselStart

SpecCounsel == InitCounsel /\ [][NextCounsel]_vars

(***************************************************************************)
(* The questionnaire page on its own: one student, slider values drawn     *)
(* from bounded families                                                   *)
(***************************************************************************)
\* most sliders moved away from the common rating
MaxRaised == 1

RECURSIVE SetsUpTo(_)
SetsUpTo(k) ==
    IF k = 0 THEN {{}}
    ELSE LET prev == SetsUpTo(k - 1)
         IN prev \cup {S \cup {q} : S \in prev, q \in questions}

Ratings == 1..5

\* all sliders at lo except those of S at hi, for S a small set or the
\* questions of a domain; and one rating per domain with Q18 at 3
ClassifyResponses ==
    {[q \in questions |-> IF q \in S THEN hi ELSE lo] :
        S \in SetsUpTo(MaxRaised) \cup {Range(domain_map[d]) : d \in DOMAIN domain_map},
        lo \in Ratings, hi \in Ratings}
    \cup
    {[q \in questions |->
        IF \E i \in 1..6 : q \in Range(domain_map[DomainOrder[i]])
        THEN level[CHOOSE i \in 1..6 : q \in Range(domain_map[DomainOrder[i]])]
        ELSE 3] : level \in [1..6 -> {1, 3, 5}]}

\* u1 has an account and a profile, and a run of s1 has reached the page
InitClassify ==
    /\ NodeIdle
    /\ registered = {"u1"}
    /\ profile = [u \in Users |->
          IF u = "u1"
          THEN Some([name |-> "Asha", class |-> 10, subjects |-> <<"Maths">>,
                     questionnaire_done |-> FALSE, domain |-> NoDomain])
          ELSE None]
    /\ questionnaire = [u \in Users |-> <<>>]
    /\ tests = [u \in Users |-> <<>>]
    /\ guidance = [u \in Users |-> <<>>]
    /\ sessUser = [s \in Sessions |-> IF s = "s1" THEN "u1" ELSE NoUser]
    /\ sessQDone = [s \in Sessions |-> IF s = "s1" THEN Some(FALSE) ELSE None]
    /\ pc = [s \in Sessions |-> IF s = "s1" THEN "body" ELSE "idle"]
    /\ click = [s \in Sessions |-> IF s = "s1" THEN "Submit Questionnaire" ELSE "none"]
    /\ page = [s \in Sessions |-> IF s = "s1" THEN "Questionnaire" ELSE "login"]
    /\ local = [s \in Sessions |-> IF s = "s1" THEN profile["u1"] ELSE None]

NextClassify ==
    \/ /\ Clicked("s1", "Submit Questionnaire")
       /\ \E responses \in ClassifyResponses : SubmitQuestionnaire("s1", responses)
    \/ SubmitQuestionnaireUpdate("s1")
    \/ Rerun("s1")
    \/ Render("s1")

SpecClassify == InitClassify /\ [][NextClassify]_vars

(***************************************************************************)
(* The node on its own: inputs drawn from bounded sets                     *)
(***************************************************************************)
NodeSubjects == {"Maths", "Physics"}
NodeSubjectVals(sub) == IF sub = "Maths" THEN ScoreVals ELSE {50}

\* rows as lines 351-358 build them for the subject set S
RowsFor(S) ==
    {test_row(10, S, marks) :
        marks \in {m \in [S -> ScoreVals] : \A sub \in S : m[sub] \in NodeSubjectVals(sub)}}

\* the rows of a history, and the placeholder row of lines 455 and 492
NodeRows ==
    UNION {RowsFor(S) : S \in SUBSET NodeSubjects} \cup {[class |-> 10]}

NodeHistories == SeqsUpTo(NodeRows, MaxRows)

\* complete states, and states a caller built without one of the keys
NodeStates ==
    UNION {
        { [student_name |-> "Asha", test_scores |-> h, state |-> "Kerala",
           requirement |-> <<"engineer", " - ", "Robotics">>, guidance_text |-> <<>>],
          [student_name |-> "Asha", test_scores |-> h, state |-> "Kerala",
           guidance_text |-> <<>>] } : h \in NodeHistories }
    \cup {[student_name |-> "Asha", state |-> "Kerala",
           requirement |-> <<"engineer", " - ", "Robotics">>, guidance_text |-> <<>>]}

InitNode ==
    /\ nodeIn \in NodeStates
    /\ nodeReplies = NoReplies
    /\ nodeOut = NotInvoked
    /\ AppStart

Invoke(replies) ==
    /\ nodeOut = NotInvoked
    /\ nodeReplies' = replies
    /\ nodeOut' = app_invoke(nodeIn, replies)
    /\ UNCHANGED <<nodeIn, dbVars, sessVars>>

\* the node is invoked once more on the same request, the guidance_text
\* field of the input being empty (line 458) or a text left from before
EarlierTexts == {<<>>, <<"earlier advice">>}
AgainReplies ==
    [1..2 -> {[kind |-> "ok", content |-> <<"advice">>],
              [kind |-> "raise", err |-> "APITimeoutError"]}]
InvokeAgain(replies, text) ==
    /\ nodeOut # NotInvoked
    /\ nodeIn' = WithGuidance(nodeIn, text)
    /\ nodeReplies' = replies
    /\ nodeOut' = app_invoke(nodeIn', replies)
    /\ UNCHANGED <<dbVars, sessVars>>

NextNode ==
    \/ \E replies \in [1..2 -> ServiceReplies] : Invoke(replies)
    \/ \E replies \in AgainReplies, text \in EarlierTexts : InvokeAgain(replies, text)

SpecNode == InitNode /\ [][NextNode]_vars

(***************************************************************************)
(* Claims about the node                                                   *)
(***************************************************************************)
Invoked == nodeOut # NotInvoked
Built == Invoked /\ nodeOut.prompt # NoPrompt
BuiltTrends == nodeOut.prompt[4]
FirstLast(sc) ==
    IF sc[Len(sc)] > sc[1] THEN "Improving"
    ELSE IF sc[Len(sc)] < sc[1] THEN "Declining" ELSE "Stable"

\* C1: for a subject with at least two scores the trend the node computes is
\* Improving, Declining or Stable as the last score is greater than, smaller
\* than or equal to the first, and replacing any score strictly between the
\* first and the last by any other value leaves the trend as it is.
C1_TrendFirstLast ==
    Built =>
        \A sub \in DOMAIN BuiltTrends :
            LET sc == sub_scores(nodeIn["test_scores"], sub) IN
            Len(sc) >= 2 =>
                /\ BuiltTrends[sub] = FirstLast(sc)
                /\ \A i \in 2..(Len(sc) - 1) : \A v \in ScoreVals :
                       get_trend([sc EXCEPT ![i] = v]) = BuiltTrends[sub]

\* the history 50, 90, 10 was classified, as Declining
C1_Witness ==
    /\ Built
    /\ "Maths" \in DOMAIN BuiltTrends
    /\ sub_scores(nodeIn["test_scores"], "Maths") = <<50, 90, 10>>
    /\ BuiltTrends["Maths"] = "Declining"

\* C2: for a subject with fewer than two scores the trend is "Not enough
\* data" (also for no score at all), and the request goes on: the service is
\* called and, when it answers, its text is the guidance.
C2_InsufficientData ==
    /\ get_trend(<<>>) = "Not enough data"
    /\ Built =>
        \A sub \in DOMAIN BuiltTrends :
            LET sc == sub_scores(nodeIn["test_scores"], sub) IN
            Len(sc) < 2 =>
                /\ BuiltTrends[sub] = "Not enough data"
                /\ nodeOut.calls = 1
                /\ nodeReplies[1].kind = "ok" =>
                       nodeOut.out["guidance_text"] = Strip(nodeReplies[1].content)

\* a one-row history was classified and the service's answer returned
C2_Witness ==
    /\ Built
    /\ Len(nodeIn["test_scores"]) = 1
    /\ "Maths" \in DOMAIN BuiltTrends
    /\ BuiltTrends["Maths"] = "Not enough data"
    /\ nodeReplies[1].kind = "ok"
    /\ nodeOut.out["guidance_text"] = <<"advice", "table">>

\* the invocation failed: a key the prompt needs is missing, or the one call
\* to the service did not yield a content
NodeFailed ==
    /\ Invoked
    /\ \/ ~({"student_name", "test_scores", "state", "requirement"} \subseteq DOMAIN nodeIn)
       \/ nodeReplies[1].kind # "ok"

\* C5: when building the prompt or calling the service fails, the node does
\* not raise; it returns the input state with guidance_text set to a
\* non-empty text that begins with the error marker, every other field as
\* it was.
C5_FailureIsText ==
    NodeFailed =>
        /\ ~nodeOut.raised
        /\ DOMAIN nodeOut.out = (DOMAIN nodeIn) \cup {"guidance_text"}
        /\ nodeOut.out["guidance_text"] # <<>>
        /\ Head(nodeOut.out["guidance_text"]) = "<warning sign> Error fetching AI guidance: "
        /\ \A k \in (DOMAIN nodeIn) \ {"guidance_text"} : nodeOut.out[k] = nodeIn[k]

\* a malformed reply (a choice without content) became an error text
C5_Witness ==
    /\ NodeFailed
    /\ nodeOut.calls = 1
    /\ nodeReplies[1].kind = "null_content"
    /\ Head(nodeOut.out["guidance_text"]) = ErrorMarker
    /\ nodeOut.out["test_scores"] = nodeIn["test_scores"]

\* C6: the subject list the node derives from the first row holds none of
\* the fields lines 351-354 put into every row (class, date_entered): it is
\* the first row's keys without them.
C6_NoBookkeepingSubject ==
    Built =>
        /\ (DOMAIN BuiltTrends) \cap {"class", "date_entered"} = {}
        /\ nodeIn["test_scores"] # <<>> =>
               DOMAIN BuiltTrends =
                   (DOMAIN nodeIn["test_scores"][1]) \ {"class", "date_entered"}

\* a row with class, date_entered and two subjects gave exactly two subjects
C6_Witness ==
    /\ Built
    /\ nodeIn["test_scores"] # <<>>
    /\ DOMAIN nodeIn["test_scores"][1] = {"class", "date_entered", "Maths", "Physics"}
    /\ DOMAIN BuiltTrends = {"Maths", "Physics"}

\* C9: one invocation calls the service at most once; when that call fails
\* the failure is the guidance text and no second call is made, even if a
\* second call would have succeeded.
C9_AtMostOneCall ==
    Invoked =>
        /\ nodeOut.calls <= 1
        /\ (nodeOut.calls >= 1 /\ nodeReplies[1].kind # "ok") =>
               /\ Head(nodeOut.out["guidance_text"]) = ErrorMarker
               /\ nodeOut.out["guidance_text"][2] = ReplyError(nodeReplies[1])

\* the call timed out, a second call would have answered, and the timeout
\* is the guidance text
C9_Witness ==
    /\ Invoked
    /\ nodeOut.calls = 1
    /\ nodeReplies[1] = [kind |-> "raise", err |-> "APITimeoutError"]
    /\ nodeReplies[2].kind = "ok"
    /\ nodeOut.out["guidance_text"][2] = "APITimeoutError"

\* the rows of the history h that have the key sub
RowsWith(h, sub) ==
    LET Has(t) == sub \in DOMAIN t IN SelectSeq(h, Has)

\* the history is empty, or a later row lacks a subject of the first row
Malformed(h) ==
    \/ h = <<>>
    \/ \E i \in 2..Len(h) :
           ~(((DOMAIN h[1]) \ {"class", "date_entered"}) \subseteq DOMAIN h[i])

\* C11: an empty history, or one with a row that lacks a subject of the
\* first row, does not fail the request. The prompt is built; an empty
\* history gives no subject and no trend; a subject's trend is computed over
\* the rows that have the subject, the others skipped; and when the service
\* answers, the guidance text is its (stripped) text and not the error text.
C11_MalformedHistoryTolerated ==
    (/\ Invoked
     /\ {"student_name", "test_scores", "state", "requirement"} \subseteq DOMAIN nodeIn
     /\ Malformed(nodeIn["test_scores"])) =>
        /\ ~nodeOut.raised
        /\ nodeOut.prompt # NoPrompt
        /\ nodeOut.calls = 1
        /\ nodeIn["test_scores"] = <<>> => DOMAIN BuiltTrends = {}
        /\ \A sub \in DOMAIN BuiltTrends :
               LET rows == RowsWith(nodeIn["test_scores"], sub)
                   sc == [i \in 1..Len(rows) |-> rows[i][sub]]
               IN BuiltTrends[sub] =
                      IF Len(sc) < 2 THEN "Not enough data" ELSE FirstLast(sc)
        /\ nodeReplies[1].kind = "ok" =>
               /\ nodeOut.out["guidance_text"] = Strip(nodeReplies[1].content)
               /\ \/ nodeOut.out["guidance_text"] = <<>>
                  \/ Head(nodeOut.out["guidance_text"]) #
                         "<warning sign> Error fetching AI guidance: "

\* the middle row of three has no Maths mark: the trend is that of the first
\* and the third, and the service's answer is the guidance
C11_Witness ==
    /\ Invoked
    /\ "test_scores" \in DOMAIN nodeIn
    /\ Len(nodeIn["test_scores"]) = 3
    /\ "Maths" \in DOMAIN nodeIn["test_scores"][1]
    /\ "Maths" \notin DOMAIN nodeIn["test_scores"][2]
    /\ "Maths" \in DOMAIN nodeIn["test_scores"][3]
    /\ nodeOut.prompt # NoPrompt
    /\ BuiltTrends["Maths"] = "Improving"
    /\ nodeReplies[1].kind = "ok"
    /\ nodeOut.out["guidance_text"] = <<"advice", "table">>

\* the fields of the input that the claim C12 fixes
SameRequest(a, b) ==
    \A k \in {"student_name", "test_scores", "state", "requirement"} :
        /\ k \in DOMAIN a <=> k \in DOMAIN b
        /\ k \in DOMAIN a => a[k] = b[k]

\* C12: two invocations of the node with the same student name, score
\* history, state and requirement build the same prompt (subjects, trends
\* and instruction block), whatever the service answers to either and
\* whatever the guidance_text field of the input holds.
C12_PromptDeterministic ==
    [][(Invoked /\ nodeOut' # NotInvoked /\ SameRequest(nodeIn, nodeIn')) =>
           nodeOut'.prompt = nodeOut.prompt]_vars

\* a second invocation, on an input that carries an earlier text, has built
\* a prompt with the trend of Maths while its call to the service failed
C12_Witness ==
    /\ Invoked
    /\ nodeIn["guidance_text"] = <<"earlier advice">>
    /\ nodeOut.prompt # NoPrompt
    /\ "Maths" \in DOMAIN BuiltTrends
    /\ BuiltTrends["Maths"] = "Declining"
    /\ nodeReplies[1].kind = "raise"
    /\ Head(nodeOut.out["guidance_text"]) = ErrorMarker

(***************************************************************************)
(* Claims about the questionnaire                                          *)
(***************************************************************************)
RECURSIVE SumSet(_, _)
SumSet(f, S) ==
    IF S = {} THEN 0
    ELSE LET x == CHOOSE y \in S : TRUE IN f[x] + SumSet(f, S \ {x})

ExampleResponses == [q \in questions |-> IF q \in {1, 3, 8, 11, 22} THEN 5 ELSE 1]

\* C3: in every stored submission each domain's score is the sum of the
\* ratings of the domain's questions, the stored domain has a score no
\* smaller than any domain's, it is the domain saved in the profile, and
\* the ratings Q1,Q3,Q8,Q11,Q22 = 5, all others 1 give Engineering &
\* Technology.
C3_SumAndMax ==
    \A u \in Users : \A i \in DOMAIN questionnaire[u] :
        LET rec == questionnaire[u][i] IN
        /\ \A d \in DOMAIN domain_map :
               /\ rec.domain_scores[d] = SumSet(rec.responses, Range(domain_map[d]))
               /\ rec.domain_scores[rec.calculated_domain] >= rec.domain_scores[d]
        /\ (i = Len(questionnaire[u]) /\ profile[u][1].questionnaire_done) =>
               profile[u][1].domain = rec.calculated_domain
        /\ rec.responses = ExampleResponses =>
               rec.calculated_domain = "Engineering & Technology"

\* the example ratings were submitted and classified
C3_Witness ==
    /\ Len(questionnaire["u1"]) = 1
    /\ questionnaire["u1"][1].responses = ExampleResponses
    /\ questionnaire["u1"][1].domain_scores["Engineering & Technology"] = 25
    /\ profile["u1"][1].domain = "Engineering & Technology"

DomainsOf(q) == {d \in DOMAIN domain_map : q \in Range(domain_map[d])}

\* the domains whose score differs between two score maps
Differing(a, b) == {d \in DOMAIN domain_map : a[d] # b[d]}

\* C4 as stated: six domains, and every question Q1..Q31 is in exactly one
\* domain, so that changing any one rating of a submission changes exactly
\* one domain score.
C4_EveryQuestionInOneDomain ==
    /\ Cardinality(DOMAIN domain_map) = 6
    /\ \A q \in questions : Cardinality(DomainsOf(q)) = 1
    /\ \A u \in Users : \A i \in DOMAIN questionnaire[u] :
           \A q \in questions : \A v \in Ratings \ {questionnaire[u][i].responses[q]} :
               Cardinality(Differing(
                   domain_scores([questionnaire[u][i].responses EXCEPT ![q] = v]),
                   questionnaire[u][i].domain_scores)) = 1

\* C4 amended: six domains of five questions each; every question except
\* Q18 is in exactly one domain and Q18 is in none, so that changing one
\* rating of a submission changes exactly one domain score, or no score
\* when the rating is that of Q18.
C4_AllButQ18InOneDomain ==
    /\ Cardinality(DOMAIN domain_map) = 6
    /\ \A d \in DOMAIN domain_map :
           Len(domain_map[d]) = 5 /\ Cardinality(Range(domain_map[d])) = 5
    /\ \A q \in questions : Cardinality(DomainsOf(q)) = (IF q = 18 THEN 0 ELSE 1)
    /\ \A u \in Users : \A i \in DOMAIN questionnaire[u] :
           \A q \in questions : \A v \in Ratings \ {questionnaire[u][i].responses[q]} :
               Cardinality(Differing(
                   domain_scores([questionnaire[u][i].responses EXCEPT ![q] = v]),
                   questionnaire[u][i].domain_scores)) = (IF q = 18 THEN 0 ELSE 1)

\* a submission with Q18 at 5 and every other rating at 1 scored all six
\* domains 5
C4_Witness ==
    /\ Len(questionnaire["u1"]) = 1
    /\ questionnaire["u1"][1].responses = [q \in questions |-> IF q = 18 THEN 5 ELSE 1]
    /\ \A d \in DOMAIN domain_map : questionnaire["u1"][1].domain_scores[d] = 5

(***************************************************************************)
(* Claims about the stored documents                                       *)
(***************************************************************************)
\* the places in the domain map of the domains that have the greatest score
TopPlaces(scores) ==
    {i \in DOMAIN DomainOrder :
        \A j \in DOMAIN DomainOrder : scores[DomainOrder[i]] >= scores[DomainOrder[j]]}

\* C13: when several domains share the greatest score, the stored domain is
\* the one of them declared first in the domain map; in particular a
\* submission with every slider at 3 gives every domain the score 15 and
\* saves Engineering & Technology.
C13_FirstMaxWins ==
    \A u \in Users : \A i \in DOMAIN questionnaire[u] :
        LET rec == questionnaire[u][i]
            places == TopPlaces(rec.domain_scores)
        IN /\ \E p \in places :
                  /\ \A q \in places : p <= q
                  /\ rec.calculated_domain = DomainOrder[p]
           /\ (\A q \in questions : rec.responses[q] = 3) =>
                  /\ \A d \in DOMAIN rec.domain_scores : rec.domain_scores[d] = 15
                  /\ rec.calculated_domain = "Engineering & Technology"
                  /\ (i = Len(questionnaire[u]) /\ profile[u][1].questionnaire_done) =>
                         profile[u][1].domain = "Engineering & Technology"

\* every slider was left at 3, the six domains tie at 15 and the first one
\* is saved
C13_Witness ==
    /\ Len(questionnaire["u1"]) = 1
    /\ \A q \in questions : questionnaire["u1"][1].responses[q] = 3
    /\ TopPlaces(questionnaire["u1"][1].domain_scores) = 1..6
    /\ questionnaire["u1"][1].calculated_domain = "Engineering & Technology"
    /\ profile["u1"][1].domain = "Engineering & Technology"
    /\ profile["u1"][1].questionnaire_done

\* what a session that shows a page has: a user, with a profile, and the
\* session flag the page needs
GateOffered ==
    \A s \in Sessions :
        (pc[s] = "idle" /\ page[s] \in Pages) =>
            /\ sessUser[s] # NoUser
            /\ profile[sessUser[s]] # None
            /\ page[s] \in {"Counsel", "Previous Analysis"} => sessQDone[s] = Some(TRUE)
            /\ page[s] = "Questionnaire" => sessQDone[s] = Some(FALSE)

\* in a run that has passed line 217 the session flag is true when the
\* profile it read says questionnaire_done
GateSync ==
    \A s \in Sessions :
        (pc[s] = "body" /\ local[s] # None /\ local[s][1].questionnaire_done) =>
            sessQDone[s] = Some(TRUE)

\* only a student with a stored questionnaire submission has test rows or
\* guidance records
GateWrites ==
    \A u \in Users :
        (tests[u] # <<>> \/ guidance[u] # <<>>) =>
            /\ questionnaire[u] # <<>>
            /\ profile[u] # None
            /\ profile[u][1].questionnaire_done

ProfileConsistent(p) ==
    /\ p.questionnaire_done <=> p.domain # "None"
    /\ p.domain # "None" =>
           p.domain \in {"Engineering & Technology", "Research & Science",
                         "Medical & Life Sciences", "Arts & Design",
                         "Business & Management", "Law & Public Services"}

\* session s takes the step of the handler of button that starts at
\* st.button, or the step that follows its first call to Firestore
Handles(s, button) == Clicked(s, button) /\ pc'[s] # "body"
Resumes(s, at) == pc[s] = at /\ pc'[s] # at

\* C15: in every stored profile questionnaire_done is true exactly when
\* domain is not null, and a domain is one of the six domain names. Save
\* Profile writes questionnaire_done false with domain null, Submit
\* Questionnaire writes questionnaire_done true with a domain, and Update
\* Profile leaves questionnaire_done and domain as they are.
C15_DoneIffDomain ==
    /\ [](\A u \in Users : profile[u] # None => ProfileConsistent(profile[u][1]))
    /\ [][\A s \in Sessions :
             LET u == sessUser[s] IN
             /\ (Handles(s, "Save Profile") /\ profile'[u] # profile[u]) =>
                    /\ ~profile'[u][1].questionnaire_done
                    /\ profile'[u][1].domain = "None"
             /\ Handles(s, "Submit Questionnaire") => profile' = profile
             /\ Resumes(s, "saved") => profile' = profile
             /\ Resumes(s, "added") =>
                    /\ profile'[u][1].questionnaire_done
                    /\ profile'[u][1].domain # "None"
             /\ Handles(s, "Update Profile") =>
                    /\ profile'[u][1].questionnaire_done = profile[u][1].questionnaire_done
                    /\ profile'[u][1].domain = profile[u][1].domain
                    /\ \A v \in Users \ {u} : profile'[v] = profile[v]]_vars

\* u1, who has completed the questionnaire, has changed the name with
\* Update Profile: the profile still says done, with the domain Research &
\* Science; and u2 has saved a first profile, not done and without a domain
C15_Witness ==
    /\ profile["u1"] # None
    /\ profile["u1"][1].name = "Ravi"
    /\ profile["u1"][1].questionnaire_done
    /\ profile["u1"][1].domain = "Research & Science"
    /\ Len(questionnaire["u1"]) = 1
    /\ profile["u2"] # None
    /\ ~profile["u2"][1].questionnaire_done
    /\ profile["u2"][1].domain = "None"

\* a submission of the student is stored: its record, and the domain in the
\* profile
SubmissionStored(u) ==
    /\ questionnaire[u] # <<>>
    /\ profile[u] # None
    /\ profile[u][1].questionnaire_done

\* C7: once a student has a stored questionnaire submission, no step stores
\* another questionnaire record or changes the domain saved in the
\* student's profile.
C7_WriteOnce ==
    [][\A u \in Users :
          SubmissionStored(u) =>
              /\ questionnaire'[u] = questionnaire[u]
              /\ profile'[u][1].domain = profile[u][1].domain]_vars

\* the rows of a student in the order in which they were added
LoadTestsEntryOrder(uid) == [i \in DOMAIN tests[uid] |-> tests[uid][i].data]

\* the stored submission of u1 is as it was after both sessions have logged
\* in as u1 and the name in the profile has been changed
C7_Witness ==
    /\ \A s \in Sessions : sessUser[s] = "u1" /\ sessQDone[s] = Some(TRUE) /\ pc[s] = "idle"
    /\ page["s1"] = "Previous Analysis"
    /\ profile["u1"][1].name = "Ravi"
    /\ questionnaire["u1"] = <<StoredSubmission>>
    /\ profile["u1"][1].domain = StoredSubmission.calculated_domain

IsPrefix(a, b) == Len(a) <= Len(b) /\ SubSeq(b, 1, Len(a)) = a

\* a step is a completed click on Generate Career Guidance by student u
GenerateClick(u) ==
    \E s \in Sessions :
        /\ sessUser[s] = u
        /\ \E requirement \in {"Doctor", "Research & Science jobs"},
              r1 \in AppReplies, r2 \in AppReplies, r3 \in AppReplies :
               Generate(s, requirement, r1, r2, r3)

\* C10: every step leaves the guidance records a student has as they are;
\* a completed click on Generate adds exactly one record after them, and
\* no other step adds one.
C10_GuidanceAppendOnly ==
    [][\A u \in Users :
          /\ IsPrefix(guidance[u], guidance'[u])
          /\ Len(guidance'[u]) = Len(guidance[u]) + (IF GenerateClick(u) THEN 1 ELSE 0)]_vars

\* the record stored for the student is as it was, and after it is the
\* combined record of a mismatched request whose calls failed
C10_Witness ==
    /\ Len(guidance["u1"]) = 2
    /\ guidance["u1"][1] = StoredGuidance
    /\ ~guidance["u1"][2].match
    /\ guidance["u1"][2].requirement = "Doctor"
    /\ ErrorMarker \in Range(guidance["u1"][2].guidance_text)

====
